---- MODULE Spec2Model ----
(***************************************************************************)
(* A model of kataras/httpfs: the in-memory cache builder (Cache,          *)
(* findNames, findDirs, cacheFiles), the cached file system (cacheFS.Open, *)
(* cacheFS.Ropen, file.Get, dir.Readdir) and the FileServer handler.       *)
(*                                                                         *)
(* Strings that the code inspects for slashes (request paths, file names,  *)
(* map keys) are modelled as the non-empty sequence of their slash-free    *)
(* segments: "/a/b.txt" is <<"", "a", "b.txt">>, "/a/" is <<"", "a", "">>, *)
(* "/" is <<"", "">> and the empty string is <<"">>.  The correspondence   *)
(* is one to one, so a trailing slash is never lost.                       *)
(***************************************************************************)
EXTENDS Integers, Sequences, FiniteSets, TLC

(***************************************************************************)
(* Strings and the path package                                            *)
(***************************************************************************)

Front(s) == SubSeq(s, 1, Len(s) - 1)

Last(s) == s[Len(s)]

EmptyStr == <<"">>

Slash == <<"", "">>

\* a + b, for the concatenations the code performs: one of the two segments
\* that meet is empty (b starts with a slash or a ends with one, or one of
\* them is the empty string).
Cat(a, b) ==
  Front(a) \o <<(IF Last(a) = "" THEN b[1] ELSE Last(a))>> \o Tail(b)

HasPrefixSlash(s) == Len(s) >= 2 /\ s[1] = ""

\* strings.HasSuffix(s, t) for a t that starts with a slash.
HasSuffix(s, t) ==
  /\ Len(s) >= Len(t)
  /\ SubSeq(s, Len(s) - Len(t) + 2, Len(s)) = Tail(t)

\* strings.TrimSuffix(s, "/")
TrimSuffixSlash(s) == IF Len(s) >= 2 /\ Last(s) = "" THEN Front(s) ELSE s

\* prefix(s, "/")
prefix(s) == IF HasPrefixSlash(s) THEN s ELSE <<"">> \o s

RECURSIVE CleanSegs(_, _, _)
\* The elements of path.Clean's result: "" and "." are dropped, ".." pops.
CleanSegs(segs, acc, rooted) ==
  IF segs = <<>> THEN acc
  ELSE LET x == Head(segs) IN
       IF x = "" \/ x = "." THEN CleanSegs(Tail(segs), acc, rooted)
       ELSE IF x = ".."
            THEN IF acc # <<>> /\ Last(acc) # ".."
                 THEN CleanSegs(Tail(segs), Front(acc), rooted)
                 ELSE IF rooted THEN CleanSegs(Tail(segs), acc, rooted)
                      ELSE CleanSegs(Tail(segs), Append(acc, x), rooted)
            ELSE CleanSegs(Tail(segs), Append(acc, x), rooted)

\* path.Clean
Clean(s) ==
  LET rooted == HasPrefixSlash(s)
      segs == CleanSegs(s, <<>>, rooted)
  IN IF rooted THEN (IF segs = <<>> THEN Slash ELSE <<"">> \o segs)
     ELSE (IF segs = <<>> THEN <<".">> ELSE segs)

\* path.Join(a, b): empty elements are ignored, the rest is joined with a
\* slash and cleaned.
Join(a, b) ==
  IF a = EmptyStr /\ b = EmptyStr THEN EmptyStr
  ELSE IF a = EmptyStr THEN Clean(b)
  ELSE IF b = EmptyStr THEN Clean(a)
  ELSE Clean(a \o b)

\* path.Dir: everything up to the last slash, cleaned.
Dir(s) == IF Len(s) >= 2 THEN Clean(Append(Front(s), "")) ELSE <<".">>

RECURSIVE StripTrailingSlashes(_)
StripTrailingSlashes(s) ==
  IF Len(s) >= 2 /\ Last(s) = "" THEN StripTrailingSlashes(Front(s)) ELSE s

\* path.Base, a slash-free string except for the root, whose base is "/".
Base(s) ==
  IF s = EmptyStr THEN "."
  ELSE LET t == StripTrailingSlashes(s) IN
       IF t = EmptyStr THEN "/" ELSE Last(t)

RECURSIVE toBaseName(_)
\* toBaseName: the text after the last slash; a trailing slash is removed
\* first.  (The backslash branch is not modelled: no name holds one.)
toBaseName(s) ==
  IF Len(s) = 1 THEN s[1]
  ELSE IF Last(s) = "" THEN toBaseName(Front(s))
  ELSE Last(s)

\* strings.Count(name, "/")
CountSlashes(s) == Len(s) - 1


(***************************************************************************)
(* Bounds and the universe of inputs                                       *)
(***************************************************************************)

\* The most files a source tree holds.
MaxFiles == 3

\* The candidate file paths of a source tree (no path is a prefix of another).
FilePaths ==
  { <<"", "b.txt">>, <<"", "a", "b.txt">>, <<"", "a", "p.jpg">>,
    <<"", "a", "c", "d.txt">>, <<"", "a", "c", "b.txt">>,
    <<"", "c", "d.txt">> }

\* The minimum size of the CacheOptions of the model that set one.
MinSize == 2

\* File contents: one byte below the minimum size, and exactly at it.
Contents == { [k \in 1..(MinSize - 1) |-> 6 + k], [k \in 1..MinSize |-> 9 - k] }

\* Modification times, in half seconds; 0 is the zero time.Time.
TicksPerSecond == 2

NoFault == [op |-> "none", at |-> EmptyStr]

(***************************************************************************)
(* The file systems: http.FileSystem values                                *)
(***************************************************************************)

\* A plain provider (an http.Dir, an embedded asset tree): its regular
\* files with their bytes and modification times, the modification time its
\* directories report, and the directories that report the zero time.
PlainFS(files, dirTime, zeroDirs) ==
  [kind |-> "plain", files |-> files, dirTime |-> dirTime, zeroDirs |-> zeroDirs]

PlainDirTime(fs, p) == IF p \in fs.zeroDirs THEN 0 ELSE fs.dirTime

\* os.FileInfo as the code reads it.  ref is the key of the cached directory
\* a *dir value points to, and the empty string for a *fileInfo.
FileInfo(baseName, mode, modTime, ref) ==
  [baseName |-> baseName, mode |-> mode, modTime |-> modTime,
   isDir |-> (mode = "dir"), ref |-> ref]

\* newFileInfo
newFileInfo(baseName, mode, modTime) == FileInfo(baseName, mode, modTime, EmptyStr)

\* The elements of a clean absolute path.
Segs(p) == IF p = Slash THEN <<>> ELSE Tail(p)

IsProperPrefix(p, f) ==
  /\ Len(Segs(f)) > Len(Segs(p))
  /\ SubSeq(Segs(f), 1, Len(Segs(p))) = Segs(p)

PlainIsDir(fs, p) == p = Slash \/ \E f \in DOMAIN fs.files : IsProperPrefix(p, f)

PlainChildNames(fs, p) ==
  { Segs(f)[Len(Segs(p)) + 1] : f \in { g \in DOMAIN fs.files : IsProperPrefix(p, g) } }

RECURSIVE SetToSeq(_)
SetToSeq(S) ==
  IF S = {} THEN <<>>
  ELSE LET x == CHOOSE y \in S : TRUE IN <<x>> \o SetToSeq(S \ {x})

NotExist == [err |-> "notexist"]

\* Open on a plain provider: http.Dir cleans "/" + name before it looks.
PlainOpen(fs, name) ==
  LET p == Clean(Cat(Slash, name)) IN
  IF p \in DOMAIN fs.files
  THEN [err |-> "", isDir |-> FALSE, cached |-> FALSE, alg |-> "",
        path |-> p, info |-> newFileInfo(Base(p), "file", fs.files[p].modTime),
        bytes |-> fs.files[p].bytes, children |-> <<>>]
  ELSE IF PlainIsDir(fs, p)
  THEN [err |-> "", isDir |-> TRUE, cached |-> FALSE, alg |-> "",
        path |-> p, info |-> newFileInfo(Base(p), "dir", PlainDirTime(fs, p)),
        bytes |-> <<>>,
        children |-> LET names == SetToSeq(PlainChildNames(fs, p)) IN
          [k \in 1..Len(names) |->
             LET c == Join(p, <<names[k]>>) IN
             IF c \in DOMAIN fs.files
             THEN newFileInfo(names[k], "file", fs.files[c].modTime)
             ELSE newFileInfo(names[k], "dir", PlainDirTime(fs, c))]]
  ELSE NotExist

\* file.Get that keeps the requested algorithm when it falls back to the
\* uncompressed bytes.
fileGetMissingKept(f, alg) ==
  [err |-> "", isDir |-> FALSE, cached |-> TRUE,
   alg |-> alg,
   path |-> f.name, info |-> f.info,
   bytes |-> f.algs[IF alg \in DOMAIN f.algs THEN alg ELSE ""], children |-> <<>>]

\* file.Get: the entry served for variant alg, with a reader of its own over
\* the stored bytes; the uncompressed variant when alg has none.
fileGet(f, alg) ==
  LET a == IF alg \in DOMAIN f.algs THEN alg ELSE "" IN
  [err |-> "", isDir |-> FALSE, cached |-> TRUE, alg |-> a,
   path |-> f.name, info |-> f.info, bytes |-> f.algs[a], children |-> <<>>]

\* What Open and Ropen of the cache return for a directory: the *dir itself,
\* whose Readdir hands out its children slice.
dirEntry(d) ==
  [err |-> "", isDir |-> TRUE, cached |-> FALSE, alg |-> "",
   path |-> d.name, info |-> d.info, bytes |-> <<>>, children |-> d.children]

\* cacheFS.Open answering a file with the variant of the first configured
\* encoding.
cacheOpenFirstVariant(c, name0) ==
  LET name == IF name0 = EmptyStr \/ ~HasPrefixSlash(name0) THEN Cat(Slash, name0) ELSE name0 IN
  IF name \in DOMAIN c.dirs THEN dirEntry(c.dirs[name])
  ELSE IF name \in DOMAIN c.files
  THEN fileGet(c.files[name], IF c.algs = <<>> THEN "" ELSE c.algs[1])
  ELSE NotExist

\* cacheFS.Open
cacheOpen(c, name0) ==
  LET name == IF name0 = EmptyStr \/ ~HasPrefixSlash(name0) THEN Cat(Slash, name0) ELSE name0 IN
  IF name \in DOMAIN c.dirs THEN dirEntry(c.dirs[name])
  ELSE IF name \in DOMAIN c.files THEN fileGet(c.files[name], "")
  ELSE NotExist

\* http.FileSystem.Open of either kind.
Open(fs, name) == IF fs.kind = "plain" THEN PlainOpen(fs, name) ELSE cacheOpen(fs, name)


(***************************************************************************)
(* The cache builder                                                       *)
(***************************************************************************)

\* The string of an os.FileInfo's Name(): a base name, or "/" for the root.
NameStr(b) == IF b = "/" THEN Slash ELSE <<b>>

\* A fault is one failing call of the provider or of the codec: its kind and
\* the path it fails at.
Hits(fault, op, at) == fault.op = op /\ fault.at = at

WalkFailed == [err |-> TRUE, names |-> <<>>]

RECURSIVE findNames(_, _, _)
RECURSIVE findNamesLoop(_, _, _, _, _)

\* findNames: the file paths below name, depth first.  Every handle it opens
\* is closed again by its deferred Close.
findNames(fs, name, fault) ==
  IF Hits(fault, "open", name) THEN WalkFailed
  ELSE LET f == Open(fs, name) IN
  IF f.err # "" THEN WalkFailed
  ELSE IF Hits(fault, "stat", name) THEN WalkFailed
  ELSE IF ~f.info.isDir THEN [err |-> FALSE, names |-> <<name>>]
  ELSE IF Hits(fault, "readdir", name) THEN WalkFailed
  ELSE findNamesLoop(fs, name, f.children, <<>>, fault)

\* The loop of findNames with an entry that resolves to the directory itself
\* reported as a path instead of skipped.
findNamesLoopSelfListed(fs, name, fileinfos, files, fault) ==
  IF fileinfos = <<>> THEN [err |-> FALSE, names |-> files]
  ELSE LET filename == toBaseName(NameStr(Head(fileinfos).baseName))
           fullname == Join(name, <<filename>>)
       IN IF fullname = name
          THEN findNamesLoop(fs, name, Tail(fileinfos), Append(files, name), fault)
          ELSE LET r == findNames(fs, fullname, fault) IN
               IF r.err THEN WalkFailed
               ELSE findNamesLoop(fs, name, Tail(fileinfos), files \o r.names, fault)

\* The loop of findNames over the directory's entries.
findNamesLoop(fs, name, fileinfos, files, fault) ==
  IF fileinfos = <<>> THEN [err |-> FALSE, names |-> files]
  ELSE LET filename == toBaseName(NameStr(Head(fileinfos).baseName))
           fullname == Join(name, <<filename>>)
       IN IF fullname = name
          THEN findNamesLoop(fs, name, Tail(fileinfos), files, fault)
          ELSE LET r == findNames(fs, fullname, fault) IN
               IF r.err THEN WalkFailed
               ELSE findNamesLoop(fs, name, Tail(fileinfos), files \o r.names, fault)

\* A comparison that puts the name with more slashes first.
nameLessDeepFirst(a, b) == CountSlashes(a) > CountSlashes(b)

\* The comparison Cache hands to sort.Slice: i goes before j.
nameLess(a, b) == CountSlashes(b) > CountSlashes(a)

\* sort.Slice is not stable: any order of the same names that the comparison
\* accepts can come out.
IsSortedBy(s) == \A i, j \in 1..Len(s) : i < j => ~nameLess(s[j], s[i])

Perms(s) ==
  { t \in [1..Len(s) -> { s[k] : k \in 1..Len(s) }] :
      \A x \in { s[k] : k \in 1..Len(s) } :
        Cardinality({ k \in 1..Len(s) : t[k] = x }) = Cardinality({ k \in 1..Len(s) : s[k] = x }) }

sortNames(s) == { t \in Perms(s) : IsSortedBy(t) }

\* newDir
newDir(fi, fullname) ==
  [name |-> fullname, baseName |-> Base(fullname),
   info |-> newFileInfo(Base(fullname), "dir", fi.modTime),
   children |-> <<>>]

\* The os.FileInfo a *dir is when it is appended to its parent's children.
dirAsInfo(d) == FileInfo(d.baseName, "dir", d.info.modTime, d.name)

\* One iteration of findDirs for name, whose Stat gave inf: the directory of
\* name is created when absent, appended to its parent's children when the
\* parent has an entry, and receives name's file info.
findDirsStep(dirs, name, inf) ==
  LET dirName == Dir(name)
      fresh == newDir(newFileInfo(Base(dirName), "dir", inf.modTime), dirName)
      dirs1 == IF dirName \in DOMAIN dirs THEN dirs ELSE (dirName :> fresh) @@ dirs
      d == dirs1[dirName]
      fi == newFileInfo(Base(name), inf.mode, inf.modTime)
      parentName == Dir(dirName)
      dirs2 == IF parentName \in DOMAIN dirs1
               THEN [dirs1 EXCEPT ![parentName].children = Append(@, dirAsInfo(d))]
               ELSE dirs1
  IN [dirs2 EXCEPT ![dirName].children = Append(@, fi)]


\* The codec registry (github.com/kataras/compress): the encodings
\* compress.NewWriter knows.
Supported == {"gzip", "deflate", "br", "snappy"}

\* strings.ToLower on the encoding names of the model.
ToLower(a) == IF a = "GZIP" THEN "gzip" ELSE a

Reverse(bs) == [k \in 1..Len(bs) |-> bs[Len(bs) + 1 - k]]

\* What a writer of the codec emits for contents: a header byte of the
\* encoding, then the bytes transformed (the codecs are external; each is an
\* injective, invertible transformation that is not the identity).
compress(alg, contents) ==
  IF alg = "gzip" THEN <<31>> \o Reverse(contents)
  ELSE IF alg = "deflate" THEN <<120>> \o contents
  ELSE IF alg = "br" THEN <<206>> \o Reverse(contents) \o <<3>>
  ELSE <<255>> \o contents \o <<0>>

\* The reader of the same codec.
decompress(alg, bs) ==
  IF alg = "gzip" THEN Reverse(Tail(bs))
  ELSE IF alg = "deflate" THEN Tail(bs)
  ELSE IF alg = "br" THEN Reverse(SubSeq(bs, 2, Len(bs) - 1))
  ELSE SubSeq(bs, 2, Len(bs) - 1)

\* CompressIgnore.MatchString(name), for the patterns of the model: nil, and
\* Images, which of the names of FilePaths matches those that end in .jpg.
ignoreMatches(re, name) == re = "Images" /\ Last(name) \in {"p.jpg"}

\* The size test with >= in place of >.
shouldCompressBelowMin(opts, name, contents) ==
  /\ ~(opts.CompressMinSize > 0 /\ opts.CompressMinSize >= Len(contents))
  /\ ~(opts.CompressIgnore # "nil" /\ ignoreMatches(opts.CompressIgnore, name))

\* Whether cacheFiles goes on to compress a file of this size and name.
shouldCompress(opts, name, contents) ==
  /\ ~(opts.CompressMinSize > 0 /\ opts.CompressMinSize > Len(contents))
  /\ ~(opts.CompressIgnore # "nil" /\ ignoreMatches(opts.CompressIgnore, name))

\* The copy into the variant without buf.Reset().
storeVariantNoReset(st, key, out) ==
  [algs |-> (key :> (st.buf \o out)) @@ st.algs, buf |-> st.buf \o out, err |-> FALSE]

\* After a writer has emitted out into the scratch buffer: the buffer's
\* bytes are copied into the variant of key and the buffer is reset.
storeVariant(st, key, out) ==
  [algs |-> (key :> (st.buf \o out)) @@ st.algs, buf |-> <<>>, err |-> FALSE]

RECURSIVE compressLoop(_, _, _, _)
\* The loop of cacheFiles over compressAlgs for one file.
compressLoop(st, compressAlgs, contents, failWrite) ==
  IF compressAlgs = <<>> \/ st.err THEN st
  ELSE LET alg0 == Head(compressAlgs)
           key == IF alg0 = "brotli" THEN "br" ELSE alg0
       IN IF ToLower(key) \notin Supported \/ failWrite
          THEN [st EXCEPT !.err = TRUE]
          ELSE compressLoop(storeVariant(st, key, compress(ToLower(key), contents)),
                            Tail(compressAlgs), contents, failWrite)

\* newFile
newFile(name, fi, algs) == [name |-> name, baseName |-> Base(name), info |-> fi, algs |-> algs]

FileFailed == [err |-> TRUE]

\* One iteration of cacheFiles for name.
cacheFile(fs, name, opts, fault) ==
  IF Hits(fault, "open", name) THEN FileFailed
  ELSE LET f == Open(fs, name) IN
  IF f.err # "" THEN FileFailed
  ELSE IF Hits(fault, "stat", name) THEN FileFailed
  ELSE IF Hits(fault, "read", name) THEN FileFailed
  ELSE LET fi == newFileInfo(Base(name), f.info.mode, f.info.modTime)
           contents == f.bytes
           st0 == [algs |-> ("" :> contents), buf |-> <<>>, err |-> FALSE]
           st == IF shouldCompress(opts, name, contents)
                 THEN compressLoop(st0, opts.Encodings, contents, Hits(fault, "write", name))
                 ELSE st0
       IN IF st.err THEN FileFailed
          ELSE [err |-> FALSE, file |-> newFile(name, fi, st.algs)]


(***************************************************************************)
(* The cached file system's negotiated open and the FileServer handler     *)
(***************************************************************************)

\* compress.GetEncoding(r, offers): the first offer the request's
\* Accept-Encoding accepts, and no encoding when there is none (the codec
\* registry is external; this is its contract).
Negotiate(accept, offers) ==
  LET ok == { k \in 1..Len(offers) : ToLower(offers[k]) \in accept } IN
  IF ok = {} THEN "" ELSE offers[CHOOSE k \in ok : \A j \in ok : k <= j]

\* cacheFS.Ropen
cacheRopen(c, name0, r) ==
  LET name == IF name0 = EmptyStr \/ ~HasPrefixSlash(name0) THEN Cat(Slash, name0) ELSE name0 IN
  IF name \in DOMAIN c.dirs THEN dirEntry(c.dirs[name])
  ELSE IF name \in DOMAIN c.files THEN fileGet(c.files[name], Negotiate(r.accept, c.algs))
  ELSE NotExist

\* The handler's open: Ropen when the file system has one, Open otherwise.
open(fs, name, r) == IF fs.kind = "cache" THEN cacheRopen(fs, name, r) ELSE Open(fs, name)

\* GetEncoding reporting a cached file only when it carries an encoding.
GetEncodingOnlyWhenEncoded(f) ==
  [encoding |-> IF f.cached THEN f.alg ELSE "", isCached |-> f.cached /\ f.alg # ""]

\* GetEncoding: the encoding of a *file of the cache, and whether f is one.
GetEncoding(f) == [encoding |-> IF f.cached THEN f.alg ELSE "", isCached |-> f.cached]

\* An HTTP header that holds a date: empty, text that is no date, or a date
\* of whole seconds.
NoHdr == [text |-> "", sec |-> 0]

BadHdr == [text |-> "garbage", sec |-> 0]

\* time.Format(http.TimeFormat) of a time in ticks: whole seconds, UTC.
FormatTime(t) == [text |-> "date", sec |-> t \div TicksPerSecond]

\* http.ParseTime
ParseTime(h) == [err |-> h.text # "date", t |-> h.sec * TicksPerSecond]

\* checkIfModifiedSince with mtime <= t+1s in place of mtime < t+1s.
checkIfModifiedSinceInclusive(r, modtime) ==
  IF r.method \notin {"GET", "HEAD"} THEN [modified |-> FALSE, err |-> TRUE]
  ELSE IF r.ims.text = "" \/ modtime = 0 THEN [modified |-> FALSE, err |-> TRUE]
  ELSE IF ParseTime(r.ims).err THEN [modified |-> FALSE, err |-> TRUE]
  ELSE IF modtime <= ParseTime(r.ims).t + TicksPerSecond
       THEN [modified |-> FALSE, err |-> FALSE]
       ELSE [modified |-> TRUE, err |-> FALSE]

\* checkIfModifiedSince
checkIfModifiedSince(r, modtime) ==
  IF r.method \notin {"GET", "HEAD"} THEN [modified |-> FALSE, err |-> TRUE]
  ELSE IF r.ims.text = "" \/ modtime = 0 THEN [modified |-> FALSE, err |-> TRUE]
  ELSE IF ParseTime(r.ims).err THEN [modified |-> FALSE, err |-> TRUE]
  ELSE IF modtime < ParseTime(r.ims).t + TicksPerSecond
       THEN [modified |-> FALSE, err |-> FALSE]
       ELSE [modified |-> TRUE, err |-> FALSE]

NoLoc == [set |-> FALSE, path |-> EmptyStr, rawQuery |-> ""]

NoBody == [kind |-> "none", bytes |-> <<>>, names |-> <<>>]

NoServed ==
  [called |-> FALSE, count |-> 0, name |-> "", modTime |-> 0, path |-> EmptyStr, alg |-> ""]

\* A response nothing has been written to, over the file system fs.  order
\* is the history of the steps the handler takes for a file from the Allow
\* check on, in the order it takes them.
Response0(fs) ==
  [status |-> 0, location |-> NoLoc, lastModified |-> NoHdr, contentType |-> "",
   contentLength |-> FALSE, contentEncoding |-> "", contentDisposition |-> "",
   body |-> NoBody, allowCalled |-> FALSE, rendered |-> FALSE, limited |-> FALSE,
   live |-> "", pushes |-> <<>>, served |-> NoServed, order |-> <<>>, fs |-> fs]

\* writeNotModified
writeNotModified(w) ==
  [w EXCEPT !.contentType = "", !.contentLength = FALSE, !.status = 304]

\* writeLastModified
writeLastModified(w, modtime) ==
  IF modtime # 0 THEN [w EXCEPT !.lastModified = FormatTime(modtime)] ELSE w

\* localRedirect without the raw query.
localRedirectNoQuery(w, r, newPath) ==
  [w EXCEPT !.location = [set |-> TRUE, path |-> newPath, rawQuery |-> ""],
            !.status = 301]

\* localRedirect: Location is newPath, with "?" and the raw query when
\* there is one; the status is 301.
localRedirect(w, r, newPath) ==
  [w EXCEPT !.location = [set |-> TRUE, path |-> newPath, rawQuery |-> r.query],
            !.status = 301]

\* The order of the names DirList sorts by: the strings of the model in
\* byte order.
NameRank(b) ==
  CASE b = "/" -> 0
    [] b = "a" -> 1
    [] b = "app2" -> 2
    [] b = "b.txt" -> 3
    [] b = "c" -> 4
    [] b = "d.txt" -> 5
    [] b = "docs" -> 6
    [] b = "index.html" -> 7
    [] b = "p.jpg" -> 8
    [] b = "r.txt" -> 9
    [] OTHER -> 10

\* sort.Slice(dirs, by Name) of DirList.
sortByName(s) ==
  CHOOSE t \in Perms(s) : \A i, j \in 1..Len(t) : i < j => NameRank(t[i].baseName) <= NameRank(t[j].baseName)

\* DirList, the default renderer: Readdir, the sort of the slice Readdir
\* returned, the content type and one line per entry.  The *dir of the cache
\* returns its own children slice, so the sort reorders the cache's slice; a
\* plain provider returns a fresh slice.
DirList(w, f) ==
  LET sorted == sortByName(f.children)
      fs1 == IF w.fs.kind = "cache"
             THEN [w.fs EXCEPT !.dirs[f.path].children = sorted]
             ELSE w.fs
  IN [w EXCEPT !.fs = fs1, !.rendered = TRUE, !.status = 200,
               !.contentType = "text/html; charset=utf-8",
               !.body = [kind |-> "listing", bytes |-> <<>>,
                         names |-> [k \in 1..Len(sorted) |-> sorted[k].baseName]]]

\* options.DirList: the default, or a custom renderer that returns an error
\* before it has written anything or after it has written the header.
render(o, w, f) ==
  IF o.DirList = "nil" THEN [w |-> DirList(w, f), err |-> FALSE]
  ELSE IF o.DirList = "errEarly" THEN [w |-> [w EXCEPT !.rendered = TRUE], err |-> TRUE]
  ELSE [w |-> [w EXCEPT !.rendered = TRUE, !.status = 200], err |-> TRUE]

\* w.WriteHeader(code): the first status written stands.
WriteHeader(w, code) == IF w.status = 0 THEN [w EXCEPT !.status = code] ELSE w

\* A validator that lets every request pass.
allowPassesAlways(o, name) == TRUE

\* options.Allow, for the validators of the model: none, one that refuses the
\* request paths below /app2 and writes a 403, and one that refuses them and
\* writes nothing.
allowPasses(o, name) ==
  ~(o.Allow \in {"denyApp2", "denyApp2Silent"} /\ Len(name) >= 2 /\ name[2] = "app2")

\* What a validator that refuses writes to the response.
allowWrites(o, w) == IF o.Allow = "denyApp2" THEN WriteHeader(w, 403) ELSE w

\* Regexp.MatchString of MatchCommonAssets on the names of the model.
matchAsset(name) == Last(name) \in {"x.js"}

\* A path segment with "?" and the raw query appended, for the segments and
\* the query of the model.
QSeg(seg) ==
  CASE seg = "" -> "?x=1"
    [] seg = "app2" -> "app2?x=1"
    [] seg = "docs" -> "docs?x=1"
    [] seg = "index.html" -> "index.html?x=1"
    [] seg = "x.js" -> "x.js?x=1"
    [] OTHER -> "missing?x=1"

\* r.RequestURI: the request target as the client sent it.
RequestURI(r) ==
  IF r.query = "" THEN r.path ELSE Append(Front(r.path), QSeg(Last(r.path)))

\* strings.TrimSuffix(s, t) for a t that starts with a slash.
TrimSuffix(s, t) == IF HasSuffix(s, t) THEN SubSeq(s, 1, Len(s) - Len(t) + 1) ELSE s

\* pusher.Push(target, opts): the attempt is recorded; it fails when it is
\* the attempt the request's transport refuses.
Push(st, r, target) ==
  LET failed == Len(st.pushes) + 1 = r.pushFail IN
  [pushes |-> Append(st.pushes, [target |-> target, failed |-> failed]), err |-> failed]

RECURSIVE pushLiteral(_, _, _)
\* The loop over options.PushTargets[r.URL.Path]: it breaks at the first
\* push that fails.
pushLiteral(st, r, assets) ==
  IF assets = <<>> THEN st
  ELSE LET a == Head(assets)
           target == IF HasPrefixSlash(a) THEN a ELSE Join(RequestURI(r), a)
           st1 == Push(st, r, target)
       IN IF st1.err THEN st1 ELSE pushLiteral(st1, r, Tail(assets))

RECURSIVE pushMatching(_, _, _, _, _)
\* The loop over findNames(fs, name): index files are skipped, a name the
\* pattern matches is pushed, and the loop breaks at the first push that fails.
pushMatching(st, r, o, prefixURL, found) ==
  IF found = <<>> THEN st
  ELSE LET a == Head(found) IN
       IF HasSuffix(Cat(Slash, a), o.IndexName) \/ ~matchAsset(a)
       THEN pushMatching(st, r, o, prefixURL, Tail(found))
       ELSE LET st1 == Push(st, r, Join(prefixURL, a)) IN
            IF st1.err THEN st1 ELSE pushMatching(st1, r, o, prefixURL, Tail(found))

\* The push phase entered without asking whether the response writer is an
\* http.Pusher.
canPushWithoutPusher(o, r, indexFound) ==
  /\ (DOMAIN o.PushTargets # {} \/ DOMAIN o.PushTargetsRegexp # {})
  /\ indexFound /\ ~o.Attachments.Enable

\* The condition of the push phase (lines 188-191, 210-211): targets are
\* configured, the response writer is an http.Pusher, an index file is
\* served in place of its directory, and attachments are off.
canPush(o, r, indexFound) ==
  /\ (DOMAIN o.PushTargets # {} \/ DOMAIN o.PushTargetsRegexp # {})
  /\ r.h2 /\ indexFound /\ ~o.Attachments.Enable

\* The push phase of the handler (lines 210-266).
pushTargets(fs, o, r, name, indexFound) ==
  IF ~canPush(o, r, indexFound)
  THEN <<>>
  ELSE LET st0 == [pushes |-> <<>>, err |-> FALSE]
           st1 == IF name \in DOMAIN o.PushTargets
                  THEN pushLiteral(st0, r, o.PushTargets[name])
                  ELSE st0
           trimmed == TrimSuffix(RequestURI(r), name)
           prefixURL == IF trimmed = EmptyStr THEN Slash ELSE trimmed
           found == findNames(fs, name,
                      IF r.fault = "walk" /\ fs.kind = "plain"
                      THEN [op |-> "readdir", at |-> name] ELSE NoFault)
           st2 == IF name \in DOMAIN o.PushTargetsRegexp /\ ~found.err
                  THEN pushMatching([st1 EXCEPT !.err = FALSE], r, o, prefixURL, found.names)
                  ELSE st1
       IN st2.pushes

\* The listing branch after the headers (lines 149-154): the renderer runs,
\* and an error it returns is answered with a 500.
listing(o, w, f) ==
  IF render(o, w, f).err THEN WriteHeader(render(o, w, f).w, 500) ELSE render(o, w, f).w

\* http.ServeContent(w, r, name, modtime, content) delivering nothing when a
\* push of the request has failed.
ServeContentUnlessPushFailed(w, name, modtime, f) ==
  IF \E k \in 1..Len(w.pushes) : w.pushes[k].failed THEN w
  ELSE [w EXCEPT !.status = 200,
                 !.body = [kind |-> "bytes", names |-> <<>>,
                           bytes |-> IF w.live # "" THEN compress(w.live, f.bytes) ELSE f.bytes],
                 !.served = [called |-> TRUE, count |-> @.count + 1, name |-> name,
                             modTime |-> modtime, path |-> f.path, alg |-> f.alg],
                 !.order = Append(@, "content")]

\* http.ServeContent called ahead of the steps the handler has taken so far.
ServeContentFirst(w, name, modtime, f) ==
  [w EXCEPT !.status = 200,
            !.body = [kind |-> "bytes", names |-> <<>>,
                      bytes |-> IF w.live # "" THEN compress(w.live, f.bytes) ELSE f.bytes],
            !.served = [called |-> TRUE, count |-> @.count + 1, name |-> name,
                        modTime |-> modtime, path |-> f.path, alg |-> f.alg],
            !.order = <<"content">> \o @]

\* http.ServeContent(w, r, name, modtime, content): the content of f goes out
\* with status 200, through the compressing writer when w is one.
ServeContent(w, name, modtime, f) ==
  [w EXCEPT !.status = 200,
            !.body = [kind |-> "bytes", names |-> <<>>,
                      bytes |-> IF w.live # "" THEN compress(w.live, f.bytes) ELSE f.bytes],
            !.served = [called |-> TRUE, count |-> @.count + 1, name |-> name,
                        modTime |-> modtime, path |-> f.path, alg |-> f.alg],
            !.order = Append(@, "content")]

\* The steps of the handler between its Allow check and http.ServeContent, in
\* the order of lines 161-266: the validator, the Content-Disposition
\* header, the rate limiter, the Content-Encoding header or the compressing
\* writer, and the pushes.
stepsTaken(o, attach, label) ==
  (IF o.Allow # "nil" THEN <<"allow">> ELSE <<>>)
  \o (IF attach THEN <<"disposition">> ELSE <<>>)
  \o (IF attach /\ o.Attachments.Limit > 0 THEN <<"limiter">> ELSE <<>>)
  \o (IF label # "" THEN <<"encoding">> ELSE <<>>)

\* The push phase has made the attempts ps, in this order.
pushed(w, ps) ==
  [w EXCEPT !.pushes = ps, !.order = @ \o [k \in 1..Len(ps) |-> "push"]]

\* Attachment mode for every file, an index file included.
forceAttachmentAlsoForIndex(o, indexFound) == o.Attachments.Enable

\* The test of the attachment block (line 170): not an index file, and
\* attachments are enabled.
forceAttachment(o, indexFound) == ~indexFound /\ o.Attachments.Enable

\* The handler from the Allow check to http.ServeContent (lines 161-268),
\* for the file f with metadata info.
serveFile(fs, o, r, name, f, info, indexFound) ==
  LET w0 == Response0(fs) IN
  IF o.Allow # "nil" /\ ~allowPasses(o, name)
  THEN allowWrites(o, [w0 EXCEPT !.allowCalled = TRUE, !.order = <<"allow">>])
  ELSE
    LET attach == forceAttachment(o, indexFound)
        destName == IF o.Attachments.NameFunc = "nil" THEN info.baseName ELSE "renamed"
        enc == GetEncoding(f)
        live == IF ~enc.isCached /\ o.Compress THEN Negotiate(r.accept, <<"gzip", "deflate", "br", "snappy">>) ELSE ""
        label == IF enc.isCached THEN enc.encoding ELSE live
    IN ServeContent(
         pushed([w0 EXCEPT
                   !.allowCalled = (o.Allow # "nil"),
                   !.contentDisposition = IF attach THEN destName ELSE "",
                   !.limited = attach /\ o.Attachments.Limit > 0,
                   !.contentEncoding = label,
                   !.live = live,
                   !.order = stepsTaken(o, attach, label)],
                pushTargets(fs, o, r, name, indexFound)),
         info.baseName, info.modTime, f)

\* The handler once the file to answer with is known (lines 140-268): f is
\* the index file when there is one, and what the request path named
\* otherwise.
answer(fs, o, r, name, f, indexFound) ==
  IF f.info.isDir
  THEN IF ~o.ShowList THEN WriteHeader(Response0(fs), 404)
       ELSE IF ~checkIfModifiedSince(r, f.info.modTime).modified
               /\ ~checkIfModifiedSince(r, f.info.modTime).err
       THEN writeNotModified(Response0(fs))
       ELSE listing(o, writeLastModified(Response0(fs), f.info.modTime), f)
  ELSE IF o.IndexName # EmptyStr /\ HasSuffix(name, o.IndexName)
  THEN localRedirect(Response0(fs), r, <<".", "">>)
  ELSE serveFile(fs, o, r, name, f, f.info, indexFound)

\* The handler from the index lookup on (lines 117-138), for the opened f0:
\* a directory is replaced by its index file when IndexName is set and the
\* index file opens.
withIndex(fs, o, r, name, f0, fIndex) ==
  IF f0.info.isDir /\ o.IndexName # EmptyStr /\ fIndex.err = ""
  THEN answer(fs, o, r, name, fIndex, TRUE)
  ELSE answer(fs, o, r, name, f0, FALSE)

\* An error of the provider that is not os.ErrNotExist.
IOError == [err |-> "io"]

\* The handler's open and Stat of the request path (lines 101-112): either
\* can fail with an I/O error on a plain provider.
openAndStat(fs, name, r) ==
  IF fs.kind = "plain" /\ r.fault \in {"open", "stat"} THEN IOError ELSE open(fs, name, r)

\* The handler FileServer returns (lines 97-269).  http.ServeContent is
\* external: its own handling of ranges and validators is not modelled, and
\* its answer is the content with status 200.
handler(fs, o, r) ==
  IF openAndStat(fs, prefix(r.path), r).err # ""
  THEN WriteHeader(Response0(fs), 404)
  ELSE withIndex(fs, o, r, prefix(r.path), openAndStat(fs, prefix(r.path), r),
                 open(fs, Cat(TrimSuffixSlash(prefix(r.path)), o.IndexName), r))

\* FileServer (lines 73-79): the index name gets its leading slash.  (The
\* default renderer is the value "nil" of DirList.)
FileServer(o) ==
  [o EXCEPT !.IndexName = IF @ # EmptyStr THEN prefix(@) ELSE @]

(***************************************************************************)
(* The state                                                               *)
(***************************************************************************)

VARIABLES
  src,      \* the http.FileSystem handed to Cache
  copts,    \* the CacheOptions handed to Cache
  pc,       \* where Cache is: start, sort, dirs, files, built, failed, done
  names,    \* Cache's names slice
  idx,      \* the index of the range loop of findDirs or cacheFiles
  dirs,     \* the map findDirs fills
  files,    \* the fileMap cacheFiles fills
  nOpen,    \* handles of src that were opened and not closed
  failedAt, \* history: the phase of Cache in which a call failed, "" if none
  ret,      \* what Cache or MustCache gave its caller
  fsrv,     \* the http.FileSystem FileServer serves
  sopts,    \* the Options of FileServer
  req,      \* the request being handled, NoReq between requests
  resp,     \* what the handler did for req
  rs,       \* the rateReadSeeker of an attachment and its limiter
  px,       \* what was last opened through a PrefixDir file system
  ents      \* the entries concurrent requests hold of one cached file

buildVars == <<src, copts, pc, names, idx, dirs, files, nOpen, failedAt, ret>>

serveVars == <<fsrv, sopts, req, resp, rs, px, ents>>

vars ==
  <<src, copts, pc, names, idx, dirs, files, nOpen, failedAt, ret, fsrv, sopts, req, resp, rs,
    px, ents>>

CacheOptionSet ==
  { [Encodings |-> <<"gzip", "br">>, CompressMinSize |-> MinSize, CompressIgnore |-> "Images"],
    [Encodings |-> <<"gzip">>, CompressMinSize |-> 0, CompressIgnore |-> "nil"],
    [Encodings |-> <<"gzip", "zstd">>, CompressMinSize |-> MinSize, CompressIgnore |-> "nil"],
    [Encodings |-> <<"brotli">>, CompressMinSize |-> 0, CompressIgnore |-> "nil"] }

\* The modification time of the file at p, in ticks.
ModTimeOf(p) == 2 * Len(p) + (IF Last(p) = "b.txt" THEN 1 ELSE 0)

Trees == { t \in SUBSET FilePaths : Cardinality(t) <= MaxFiles }

SourceTrees ==
  UNION { [t -> [bytes : Contents, modTime : {0}]] : t \in Trees }

NoFS == [kind |-> "none"]

NoRet == [api |-> "", kind |-> "none", fs |-> NoFS, err |-> FALSE]

NoOpts == [Encodings |-> <<>>, CompressMinSize |-> 0, CompressIgnore |-> "nil"]

NoAttachments == [Enable |-> FALSE, Limit |-> 0, Burst |-> 0, NameFunc |-> "nil"]

NoServeOpts ==
  [IndexName |-> EmptyStr, ShowList |-> FALSE, Compress |-> FALSE, DirList |-> "nil",
   Allow |-> "nil", Attachments |-> NoAttachments, PushTargets |-> <<>>,
   PushTargetsRegexp |-> <<>>]

NoReq ==
  [path |-> EmptyStr, method |-> "", ims |-> NoHdr, accept |-> {}, query |-> "",
   h2 |-> FALSE, pushFail |-> 0, fault |-> ""]

NoResp == [Response0(NoFS) EXCEPT !.status = -1]

\* No rate-limited stream.
NoRS == [state |-> "none"]

\* Nothing opened through a PrefixDir file system.
NoPx == [state |-> "none"]

\* No entry of a cached file is held.
NoEnts == <<>>

Init ==
  /\ src \in { PlainFS([p \in DOMAIN t |-> [bytes |-> t[p].bytes, modTime |-> ModTimeOf(p)]], 5, {}) :
               t \in SourceTrees }
  /\ copts = NoOpts
  /\ pc = "start"
  /\ names = <<>>
  /\ idx = 1
  /\ dirs = <<>>
  /\ files = <<>>
  /\ nOpen = 0
  /\ failedAt = ""
  /\ ret = NoRet
  /\ fsrv = NoFS
  /\ sopts = NoServeOpts
  /\ req = NoReq
  /\ resp = NoResp
  /\ rs = NoRS
  /\ px = NoPx
  /\ ents = NoEnts

\* The paths a fault of the provider can be at.
FaultPaths(fs) ==
  DOMAIN fs.files \cup { p \in { Dir(f) : f \in DOMAIN fs.files } \cup
                              { Dir(Dir(f)) : f \in DOMAIN fs.files } \cup {Slash} : TRUE }

\* The calls of the provider that can fail with an I/O error: those of a plain
\* provider.  Open, Stat and Readdir of a cacheFS return no error for a name
\* it holds, and os.ErrNotExist (which Open models itself) for any other.
ProviderFaults(fs, ops) == IF fs.kind = "cache" THEN {"none"} ELSE ops

\* Cache, lines 67-73: the options arrive and findNames walks from "/".
CacheWalk ==
  /\ pc = "start"
  /\ \E o \in (IF src.kind = "cache" THEN {copts} ELSE CacheOptionSet),
        op \in ProviderFaults(src, {"none", "open", "stat", "readdir"}), at \in FaultPaths(src) :
       LET r == findNames(src, Slash, [op |-> op, at |-> at]) IN
       /\ copts' = o
       /\ names' = r.names
       /\ pc' = IF r.err THEN "failed" ELSE "sort"
       /\ failedAt' = IF r.err THEN "walk" ELSE ""
  /\ UNCHANGED <<src, idx, dirs, files, nOpen, ret>>
  /\ UNCHANGED serveVars

\* Cache, lines 75-77: sort.Slice.
CacheSort ==
  /\ pc = "sort"
  /\ names' \in sortNames(names)
  /\ pc' = "dirs"
  /\ idx' = 1
  /\ UNCHANGED <<src, copts, dirs, files, nOpen, failedAt, ret>>
  /\ UNCHANGED serveVars

\* findDirs: one iteration of its loop, or its return after the last.  The
\* handle it opens is not closed.
FindDirs ==
  /\ pc = "dirs"
  /\ IF idx > Len(names)
     THEN /\ pc' = "files"
          /\ idx' = 1
          /\ UNCHANGED <<dirs, nOpen>>
     ELSE \E op \in ProviderFaults(src, {"none", "open", "stat"}) :
            LET name == names[idx]
                f == Open(src, name)
            IN IF op = "open" \/ f.err # ""
               THEN /\ pc' = "failed"
                    /\ dirs' = <<>>
                    /\ UNCHANGED <<idx, nOpen>>
               ELSE IF op = "stat"
               THEN /\ pc' = "failed"
                    /\ dirs' = <<>>
                    /\ nOpen' = nOpen + 1
                    /\ UNCHANGED idx
               ELSE /\ dirs' = findDirsStep(dirs, name, f.info)
                    /\ idx' = idx + 1
                    /\ nOpen' = nOpen + 1
                    /\ pc' = pc
  /\ failedAt' = IF pc' = "failed" THEN "dirs" ELSE failedAt
  /\ UNCHANGED <<src, copts, names, files, ret>>
  /\ UNCHANGED serveVars

\* cacheFiles: one iteration of its loop, or its return after the last.
CacheFiles ==
  /\ pc = "files"
  /\ IF idx > Len(names)
     THEN /\ pc' = "built"
          /\ UNCHANGED <<files, idx>>
     ELSE \E op \in ProviderFaults(src, {"none", "open", "stat", "read", "write"}) :
            LET name == names[idx]
                r == cacheFile(src, name, copts, [op |-> op, at |-> name])
            IN IF r.err
               THEN /\ pc' = "failed"
                    /\ files' = <<>>
                    /\ UNCHANGED idx
               ELSE /\ files' = (name :> r.file) @@ files
                    /\ idx' = idx + 1
                    /\ pc' = pc
  /\ dirs' = IF pc' = "failed" THEN <<>> ELSE dirs
  /\ failedAt' = IF pc' = "failed" THEN "files" ELSE failedAt
  /\ UNCHANGED <<src, copts, names, nOpen, ret>>
  /\ UNCHANGED serveVars

\* The value Cache builds at lines 90-92.
cacheFS(n, d, f, algs) == [kind |-> "cache", n |-> n, dirs |-> d, files |-> f, algs |-> algs]

\* Cache returning what it has built so far together with the error.
cacheResultPartial(failed) ==
  [fs |-> cacheFS(Len(names), dirs, files, copts.Encodings), err |-> failed]

\* What Cache returns: the cache and no error, or the provider it was given
\* and the error.
cacheResult(failed) ==
  IF failed THEN [fs |-> src, err |-> TRUE]
  ELSE [fs |-> cacheFS(Len(names), dirs, files, copts.Encodings), err |-> FALSE]

\* Cache returns to its caller.
CacheReturn ==
  /\ pc \in {"built", "failed"}
  /\ ret' = [api |-> "Cache", kind |-> "return",
             fs |-> cacheResult(pc = "failed").fs, err |-> cacheResult(pc = "failed").err]
  /\ pc' = "done"
  /\ UNCHANGED <<src, copts, names, idx, dirs, files, nOpen, failedAt>>
  /\ UNCHANGED serveVars

\* MustCache: Cache returns to it, and it panics on an error.
MustCacheReturn ==
  /\ pc \in {"built", "failed"}
  /\ ret' = IF cacheResult(pc = "failed").err
            THEN [api |-> "MustCache", kind |-> "panic", fs |-> NoFS, err |-> TRUE]
            ELSE [api |-> "MustCache", kind |-> "return",
                  fs |-> cacheResult(FALSE).fs, err |-> FALSE]
  /\ pc' = "done"
  /\ UNCHANGED <<src, copts, names, idx, dirs, files, nOpen, failedAt>>
  /\ UNCHANGED serveVars

\* Cache is called again on the cache the first call returned, with the same
\* options: Cache(Cache(fs, options), options).
CacheAgain ==
  /\ pc = "done"
  /\ src.kind = "plain"
  /\ ret.kind = "return" /\ ~ret.err
  /\ src' = ret.fs
  /\ pc' = "start"
  /\ names' = <<>>
  /\ idx' = 1
  /\ dirs' = <<>>
  /\ files' = <<>>
  /\ ret' = NoRet
  /\ UNCHANGED <<copts, nOpen, failedAt>>
  /\ UNCHANGED serveVars

(***************************************************************************)
(* Serving: a file system put into service behind FileServer               *)
(***************************************************************************)

RECURSIVE foldDirs(_, _, _)
\* findDirs without a failing call.
foldDirs(fs, ns, d) ==
  IF ns = <<>> THEN d
  ELSE foldDirs(fs, Tail(ns), findDirsStep(d, Head(ns), Open(fs, Head(ns)).info))

RECURSIVE foldFiles(_, _, _, _)
\* cacheFiles without a failing call.
foldFiles(fs, ns, o, m) ==
  IF ns = <<>> THEN m
  ELSE foldFiles(fs, Tail(ns), o, (Head(ns) :> cacheFile(fs, Head(ns), o, NoFault).file) @@ m)

\* The caches Cache(fs, o) can return: one for each order sort.Slice can
\* leave the names in.
Caches(fs, o) ==
  { cacheFS(Len(ns), foldDirs(fs, ns, <<>>), foldFiles(fs, ns, o, <<>>), o.Encodings) :
      ns \in sortNames(findNames(fs, Slash, NoFault).names) }

\* The modification time, in ticks, of the served tree's files: a whole
\* number of seconds.
ServeTime == 3 * TicksPerSecond

\* The tree that is served: an index file at the root and in /app2, a small
\* script beside it, and a directory without an index file whose file has
\* the zero time.
ServeTree ==
  PlainFS(
    (<<"", "index.html">> :> [bytes |-> [k \in 1..MinSize |-> 9 - k], modTime |-> ServeTime]) @@
    (<<"", "app2", "index.html">> :> [bytes |-> [k \in 1..MinSize |-> 4 + k], modTime |-> ServeTime + 1]) @@
    (<<"", "app2", "x.js">> :> [bytes |-> [k \in 1..(MinSize - 1) |-> 6 + k], modTime |-> ServeTime + 1]) @@
    (<<"", "docs", "r.txt">> :> [bytes |-> [k \in 1..MinSize |-> 2 + k], modTime |-> 0]),
    ServeTime + 1, {<<"", "docs">>})

ServeCacheOptions ==
  [Encodings |-> <<"gzip">>, CompressMinSize |-> MinSize, CompressIgnore |-> "Images"]

ServeProviders == {ServeTree} \cup Caches(ServeTree, ServeCacheOptions)

\* The settings of FileServer beyond the index name, the listing and the
\* compression switch.
ServeExtras ==
  LET base == [DirList |-> "nil", Allow |-> "nil", Attachments |-> NoAttachments,
               PushTargets |-> <<>>, PushTargetsRegexp |-> <<>>]
      pushLit == (<<"", "app2">> :> << <<"x.js">>, <<"", "index.html">> >>)
                 @@ (Slash :> << <<"app2", "x.js">> >>)
                 @@ (<<"", "app2", "x.js">> :> << <<"", "index.html">> >>)
      pushRe == (<<"", "app2">> :> "MatchCommonAssets")
  IN { base,
       [base EXCEPT !.Allow = "denyApp2", !.PushTargets = pushLit, !.PushTargetsRegexp = pushRe],
       [base EXCEPT !.Allow = "denyApp2Silent",
                    !.Attachments = [Enable |-> TRUE, Limit |-> 1, Burst |-> 1, NameFunc |-> "nil"]],
       [base EXCEPT !.Attachments = [Enable |-> TRUE, Limit |-> 0, Burst |-> 0, NameFunc |-> "nil"],
                    !.PushTargets = pushLit, !.PushTargetsRegexp = pushRe],
       [base EXCEPT !.Attachments = [Enable |-> TRUE, Limit |-> 1, Burst |-> 1, NameFunc |-> "rename"]],
       [base EXCEPT !.PushTargets = pushLit, !.PushTargetsRegexp = pushRe],
       [base EXCEPT !.DirList = "errEarly"],
       [base EXCEPT !.DirList = "errLate"] }

ServeOptionSet ==
  { [IndexName |-> i, ShowList |-> l, Compress |-> c, DirList |-> e.DirList,
     Allow |-> e.Allow, Attachments |-> e.Attachments, PushTargets |-> e.PushTargets,
     PushTargetsRegexp |-> e.PushTargetsRegexp] :
      i \in {EmptyStr, <<"index.html">>}, l \in BOOLEAN, c \in BOOLEAN, e \in ServeExtras }

RequestPaths ==
  { Slash, <<"", "app2">>, <<"", "app2", "">>, <<"", "app2", "index.html">>,
    <<"", "app2", "x.js">>, <<"", "docs">>, <<"", "docs", "">>, <<"", "missing">>,
    <<"app2">> }

\* The conditional headers of the model: none, text that is no date, the
\* served tree's whole second and the second before it; the methods other
\* than GET come with the header that would otherwise give 304.
Conditionals ==
  { <<"GET", NoHdr>>, <<"GET", BadHdr>>, <<"GET", FormatTime(ServeTime)>>,
    <<"GET", FormatTime(ServeTime - TicksPerSecond)>>, <<"HEAD", FormatTime(ServeTime)>>,
    <<"POST", FormatTime(ServeTime)>> }

Request(p, m, i, a, q, h2, pushFail, fault) ==
  [path |-> p, method |-> m, ims |-> i, accept |-> a, query |-> q, h2 |-> h2,
   pushFail |-> pushFail, fault |-> fault]

\* The requests of the model: every path with every conditional header and
\* with and without a query, and every path with every Accept-Encoding over
\* HTTP/1.1, over HTTP/2, and over HTTP/2 with a first push that fails; and
\* every path over HTTP/2 with an I/O error of the provider at the handler's
\* open, at its Stat, or at the Readdir of the push phase.
Requests ==
  { Request(p, c[1], c[2], {}, q, FALSE, 0, "") :
      p \in RequestPaths, c \in Conditionals, q \in {"", "x=1"} }
  \cup
  { Request(p, "GET", NoHdr, a, "", t[1], t[2], "") :
      p \in RequestPaths, a \in { {}, {"gzip", "deflate"}, {"deflate"} },
      t \in { <<FALSE, 0>>, <<TRUE, 0>>, <<TRUE, 1>> } }
  \cup
  { Request(p, "GET", NoHdr, {}, "", TRUE, 0, e) :
      p \in RequestPaths, e \in {"open", "stat", "walk"} }

InitServe ==
  /\ src = ServeTree
  /\ copts = ServeCacheOptions
  /\ pc = "serving"
  /\ names = <<>>
  /\ idx = 1
  /\ dirs = <<>>
  /\ files = <<>>
  /\ nOpen = 0
  /\ failedAt = ""
  /\ ret = NoRet
  /\ fsrv \in ServeProviders
  /\ sopts \in { FileServer(o) : o \in ServeOptionSet }
  /\ req = NoReq
  /\ resp = NoResp
  /\ rs = NoRS
  /\ px = NoPx
  /\ ents = NoEnts

\* A request arrives and the handler runs to its end.
ServeHTTP ==
  /\ pc = "serving"
  /\ req = NoReq
  /\ \E r \in Requests :
       LET w == handler(fsrv, sopts, r) IN
       /\ req' = r
       /\ resp' = [w EXCEPT !.fs = NoFS]
       /\ fsrv' = w.fs
  /\ UNCHANGED <<sopts, rs, px, ents, buildVars>>

\* The response has gone out; the next request can come.
Done ==
  /\ pc = "serving"
  /\ req # NoReq
  /\ req' = NoReq
  /\ resp' = NoResp
  /\ UNCHANGED <<fsrv, sopts, rs, px, ents, buildVars>>

NextServe ==
  \/ ServeHTTP
  \/ Done

SpecServe == InitServe /\ [][NextServe]_vars

Next ==
  \/ CacheWalk
  \/ CacheSort
  \/ FindDirs
  \/ CacheFiles
  \/ CacheReturn
  \/ MustCacheReturn
  \/ CacheAgain

Spec == Init /\ [][Next]_vars

(***************************************************************************)
(* The rate-limited stream of an attachment                                *)
(***************************************************************************)

\* The largest Attachments.Limit, in bytes per second.
MaxRate == 2

\* The largest Attachments.Burst; 0 is the value of an Attachments that sets
\* only Enable and Limit.
MaxBurst == 3

\* The largest file, in bytes.
MaxSize == 4

\* The largest buffer a Read is called with.
MaxBuf == 3

Min(a, b) == IF a <= b THEN a ELSE b

\* rate.NewLimiter(limit, burst): a bucket of burst tokens that starts full
\* and gains limit tokens a second.
NewLimiter(limit, burst) == [limit |-> limit, burst |-> burst, tokens |-> burst]

\* Limiter.WaitN(ctx, n) up to the point where it returns or starts to wait:
\* an n above the burst of a limiter with a finite limit is an error at once;
\* a context that is done gives its error; otherwise n tokens are reserved,
\* and the call waits when the bucket does not hold them yet.
WaitN(lim, cancelled, n) ==
  IF n > lim.burst THEN [lim |-> lim, out |-> "burst"]
  ELSE IF cancelled THEN [lim |-> lim, out |-> "canceled"]
  ELSE IF lim.tokens >= n THEN [lim |-> [lim EXCEPT !.tokens = @ - n], out |-> "ok"]
  ELSE [lim |-> [lim EXCEPT !.tokens = @ - n], out |-> "wait"]

\* The handler made a rateReadSeeker over a file (lines 179-185): Limit is
\* above 0, Burst is whatever the options hold, and the request is live.
InitRate ==
  /\ src = NoFS
  /\ copts = NoOpts
  /\ pc = "rate"
  /\ names = <<>>
  /\ idx = 1
  /\ dirs = <<>>
  /\ files = <<>>
  /\ nOpen = 0
  /\ failedAt = ""
  /\ ret = NoRet
  /\ fsrv = NoFS
  /\ sopts = NoServeOpts
  /\ req = NoReq
  /\ resp = NoResp
  /\ rs \in { [limiter |-> NewLimiter(l, b), size |-> z, bufLen |-> u, pos |-> 0, n |-> 0,
                state |-> "idle", err |-> "", cancelled |-> FALSE, delivered |-> 0] :
               l \in 1..MaxRate, b \in 0..MaxBurst, z \in 1..MaxSize, u \in 1..MaxBuf }
  /\ px = NoPx
  /\ ents = NoEnts

\* rateReadSeeker.Read(buf): the file's Read fills buf with the n bytes it
\* has left, up to len(buf); with n = 0 it returns the file's io.EOF;
\* otherwise WaitN(ctx, n) runs, and Read returns n with WaitN's error, or
\* stays in WaitN.  The reader (io.Copy in http.ServeContent) writes the n
\* bytes of a Read that returned and stops at its error.
Read ==
  /\ pc = "rate"
  /\ rs.state = "idle"
  /\ LET n == Min(rs.bufLen, rs.size - rs.pos)
         r == WaitN(rs.limiter, rs.cancelled, n)
     IN IF n = 0
        THEN rs' = [rs EXCEPT !.state = "done", !.err = "eof"]
        ELSE rs' = [rs EXCEPT
                      !.pos = @ + n,
                      !.n = n,
                      !.limiter = r.lim,
                      !.state = IF r.out = "ok" THEN "idle"
                                ELSE IF r.out = "wait" THEN "blocked" ELSE "failed",
                      !.err = IF r.out \in {"burst", "canceled"} THEN r.out ELSE "",
                      !.delivered = IF r.out = "wait" THEN @ ELSE @ + n]
  /\ UNCHANGED <<fsrv, sopts, req, resp, px, ents, buildVars>>

\* A second passes: the bucket gains limit tokens, up to burst.
Tick ==
  /\ pc = "rate"
  /\ rs.state \in {"idle", "blocked"}
  /\ rs.limiter.tokens < rs.limiter.burst
  /\ rs' = [rs EXCEPT !.limiter.tokens = Min(rs.limiter.burst, @ + rs.limiter.limit)]
  /\ UNCHANGED <<fsrv, sopts, req, resp, px, ents, buildVars>>

\* The timer of a waiting WaitN fires once the reservation is covered: WaitN
\* returns nil and Read returns its n bytes.
Wake ==
  /\ pc = "rate"
  /\ rs.state = "blocked"
  /\ rs.limiter.tokens >= 0
  /\ rs' = [rs EXCEPT !.state = "idle", !.delivered = @ + rs.n]
  /\ UNCHANGED <<fsrv, sopts, req, resp, px, ents, buildVars>>

\* The request is cancelled: r.Context() is done.
Cancel ==
  /\ pc = "rate"
  /\ rs.state \in {"idle", "blocked"}
  /\ ~rs.cancelled
  /\ rs' = [rs EXCEPT !.cancelled = TRUE]
  /\ UNCHANGED <<fsrv, sopts, req, resp, px, ents, buildVars>>

\* A waiting WaitN sees the context done: it gives the reservation back and
\* returns the context's error, which Read returns with n.
WakeCancelled ==
  /\ pc = "rate"
  /\ rs.state = "blocked"
  /\ rs.cancelled
  /\ rs' = [rs EXCEPT !.state = "failed", !.err = "canceled",
                      !.limiter.tokens = Min(rs.limiter.burst, @ + rs.n),
                      !.delivered = @ + rs.n]
  /\ UNCHANGED <<fsrv, sopts, req, resp, px, ents, buildVars>>

NextRate ==
  \/ Read
  \/ Tick
  \/ Wake
  \/ Cancel
  \/ WakeCancelled

SpecRate == InitRate /\ [][NextRate]_vars

(***************************************************************************)
(* PrefixDir                                                               *)
(***************************************************************************)

\* PrefixDir(prefix, fs): a prefixedRopener when fs has Ropen (the cache), a
\* prefixedDir otherwise.
PrefixDir(p, fs) ==
  [kind |-> IF fs.kind = "cache" THEN "prefixedRopener" ELSE "prefixedDir",
   prefix |-> p, fs |-> fs]

\* prefixedDir.Open
prefixedDirOpen(d, name) == Open(d.fs, Join(d.prefix, name))

\* prefixedRopener.Ropen
prefixedRopenerRopen(d, name, r) == cacheRopen(d.fs, Join(d.prefix, name), r)

\* Open of a prefixedRopener: the type declares no Open of its own, so the
\* method is the one promoted from the embedded http.FileSystem, which is fs.
prefixedRopenerOpen(d, name) == Open(d.fs, name)

\* The prefixes and the names of the model.
Prefixes == { <<"", "app2">>, <<"app2">>, Slash }

PrefixedNames ==
  { Slash, <<"", "x.js">>, <<"", "index.html">>, <<"x.js">>, <<"", "app2", "x.js">>,
    <<"", "missing">> }

\* A file system PrefixDir returned, over the served tree or a cache of it.
InitPrefix ==
  /\ src = ServeTree
  /\ copts = ServeCacheOptions
  /\ pc = "prefix"
  /\ names = <<>>
  /\ idx = 1
  /\ dirs = <<>>
  /\ files = <<>>
  /\ nOpen = 0
  /\ failedAt = ""
  /\ ret = NoRet
  /\ fsrv \in { PrefixDir(p, fs) : p \in Prefixes, fs \in ServeProviders }
  /\ sopts = NoServeOpts
  /\ req = NoReq
  /\ resp = NoResp
  /\ rs = NoRS
  /\ px = NoPx
  /\ ents = NoEnts

\* Open(name) on the file system PrefixDir returned.
PrefixedOpen ==
  /\ pc = "prefix"
  /\ px = NoPx
  /\ \E name \in PrefixedNames :
       px' = [state |-> "opened", way |-> "Open", name |-> name, r |-> NoReq,
              got |-> IF fsrv.kind = "prefixedDir" THEN prefixedDirOpen(fsrv, name)
                      ELSE prefixedRopenerOpen(fsrv, name)]
  /\ UNCHANGED <<fsrv, sopts, req, resp, rs, ents, buildVars>>

\* Ropen(name, r) on the file system PrefixDir returned, when it has one.
PrefixedRopen ==
  /\ pc = "prefix"
  /\ px = NoPx
  /\ fsrv.kind = "prefixedRopener"
  /\ \E name \in PrefixedNames, a \in { {}, {"gzip", "deflate"}, {"deflate"} } :
       LET r == [NoReq EXCEPT !.method = "GET", !.path = name, !.accept = a] IN
       px' = [state |-> "opened", way |-> "Ropen", name |-> name, r |-> r,
              got |-> prefixedRopenerRopen(fsrv, name, r)]
  /\ UNCHANGED <<fsrv, sopts, req, resp, rs, ents, buildVars>>

\* The caller is done with what it opened.
PrefixedClose ==
  /\ pc = "prefix"
  /\ px # NoPx
  /\ px' = NoPx
  /\ UNCHANGED <<fsrv, sopts, req, resp, rs, ents, buildVars>>

NextPrefix ==
  \/ PrefixedOpen
  \/ PrefixedRopen
  \/ PrefixedClose

SpecPrefix == InitPrefix /\ [][NextPrefix]_vars

(***************************************************************************)
(* Concurrent requests on the files of a cache                             *)
(***************************************************************************)

\* The most entries held at a time.
MaxReaders == 2

\* The most bytes one Read asks for.
MaxChunk == 2

\* The *file that file.Get returned as e, as its holder sees it:
\* bytes.NewReader(contents) gives it a reader with an offset of its own,
\* starting at 0, over the stored bytes.  from and out are history: the
\* offset of the last Seek, and the bytes read since.
newEntry(e) ==
  [path |-> e.path, alg |-> e.alg, s |-> e.bytes, i |-> 0, closed |-> FALSE,
   from |-> 0, out |-> <<>>]

\* Read on one reader that all entries share: the offset is that of the
\* first entry.
entryReadSharedReader(es, k, n) ==
  LET to == Min(Len(es[1].s), es[1].i + n) IN
  [j \in 1..Len(es) |->
     IF j = 1 /\ k = 1 THEN [es[1] EXCEPT !.i = to, !.out = @ \o SubSeq(es[1].s, es[1].i + 1, to)]
     ELSE IF j = 1 THEN [es[1] EXCEPT !.i = to]
     ELSE IF j = k THEN [es[k] EXCEPT !.i = to, !.out = @ \o SubSeq(es[1].s, es[1].i + 1, to)]
     ELSE es[j]]

\* Read(buf) with len(buf) = n on the entry k: the bytes from its own offset
\* on are copied out and its own offset advances.
entryRead(es, k, n) ==
  LET to == Min(Len(es[k].s), es[k].i + n) IN
  [es EXCEPT ![k].i = to, ![k].out = @ \o SubSeq(es[k].s, es[k].i + 1, to)]

\* Seek(off, io.SeekStart) on the entry k.
entrySeek(es, k, off) == [es EXCEPT ![k].i = off, ![k].from = off, ![k].out = <<>>]

\* file.Close on the entry k: it returns nil and releases nothing.
entryClose(es, k) == [es EXCEPT ![k].closed = TRUE]

\* A cache of the served tree is in service and no request holds an entry.
InitReaders ==
  /\ src = ServeTree
  /\ copts = ServeCacheOptions
  /\ pc = "readers"
  /\ names = <<>>
  /\ idx = 1
  /\ dirs = <<>>
  /\ files = <<>>
  /\ nOpen = 0
  /\ failedAt = ""
  /\ ret = NoRet
  /\ fsrv \in Caches(ServeTree, ServeCacheOptions)
  /\ sopts = NoServeOpts
  /\ req = NoReq
  /\ resp = NoResp
  /\ rs = NoRS
  /\ px = NoPx
  /\ ents = NoEnts

\* A request opens a file of the cache through Open.
EntryOpen ==
  /\ pc = "readers"
  /\ Len(ents) < MaxReaders
  /\ \E name \in DOMAIN fsrv.files :
       ents' = Append(ents, newEntry(cacheOpen(fsrv, name)))
  /\ UNCHANGED <<fsrv, sopts, req, resp, rs, px, buildVars>>

\* A request opens a file of the cache through Ropen.
EntryRopen ==
  /\ pc = "readers"
  /\ Len(ents) < MaxReaders
  /\ \E name \in DOMAIN fsrv.files, a \in { {"gzip", "deflate"}, {"deflate"} } :
       ents' = Append(ents, newEntry(cacheRopen(fsrv, name, [NoReq EXCEPT !.accept = a])))
  /\ UNCHANGED <<fsrv, sopts, req, resp, rs, px, buildVars>>

\* A request reads from its entry.
EntryRead ==
  /\ pc = "readers"
  /\ \E k \in 1..Len(ents), n \in 1..MaxChunk :
       /\ ~ents[k].closed
       /\ ents[k].i < Len(ents[k].s)
       /\ ents' = entryRead(ents, k, n)
  /\ UNCHANGED <<fsrv, sopts, req, resp, rs, px, buildVars>>

\* A request seeks in its entry.
EntrySeek ==
  /\ pc = "readers"
  /\ \E k \in 1..Len(ents), off \in 0..MaxChunk :
       /\ ~ents[k].closed
       /\ off <= Len(ents[k].s)
       /\ off # ents[k].i
       /\ ents' = entrySeek(ents, k, off)
  /\ UNCHANGED <<fsrv, sopts, req, resp, rs, px, buildVars>>

\* A request closes its entry.
EntryClose ==
  /\ pc = "readers"
  /\ \E k \in 1..Len(ents) :
       /\ ~ents[k].closed
       /\ ents' = entryClose(ents, k)
  /\ UNCHANGED <<fsrv, sopts, req, resp, rs, px, buildVars>>

NextReaders ==
  \/ EntryOpen
  \/ EntryRopen
  \/ EntryRead
  \/ EntrySeek
  \/ EntryClose

SpecReaders == InitReaders /\ [][NextReaders]_vars


(***************************************************************************)
(* Properties of the cache builder                                         *)
(***************************************************************************)

Range(s) == { s[k] : k \in DOMAIN s }

FromSegs(segs) == IF segs = <<>> THEN Slash ELSE <<"">> \o segs

\* The directories of a plain provider that are an ancestor of a file.
Ancestors(fs) ==
  UNION { { FromSegs(SubSeq(Segs(f), 1, k)) : k \in 0..(Len(Segs(f)) - 1) } : f \in DOMAIN fs.files }

Built == pc = "done" /\ src.kind = "plain" /\ ret.kind = "return" /\ ~ret.err

\* C1: after Cache succeeds, every directory that is an ancestor of a file,
\* the root included, has a Directory Cache Entry whose listing holds every
\* immediate child file and every immediate subdirectory.
C1_DirectoryTreeComplete ==
  Built =>
    \A D \in Ancestors(src) :
      /\ D \in DOMAIN ret.fs.dirs
      /\ PlainChildNames(src, D) \subseteq { c.baseName : c \in Range(ret.fs.dirs[D].children) }

\* C6: during the build a file receives compressed variants if and only if
\* its size is at least the configured minimum and its path does not match
\* the ignore pattern; otherwise its variant map holds only the key "".
C6_CompressedIffSizeAndPattern ==
  Built =>
    \A name \in DOMAIN ret.fs.files :
      LET f == ret.fs.files[name]
          size == Len(src.files[name].bytes)
          eligible == size >= copts.CompressMinSize /\ ~ignoreMatches(copts.CompressIgnore, name)
      IN /\ eligible <=> (DOMAIN f.algs \ {""}) # {}
         /\ ~eligible => DOMAIN f.algs = {""}

\* A build that compressed a file exactly at the minimum size and left alone
\* a file one byte below it and a larger one that matches the pattern.
C6_Witness ==
  /\ Built
  /\ copts.CompressMinSize = MinSize
  /\ \E a, b, c \in DOMAIN ret.fs.files :
       /\ Len(src.files[a].bytes) = MinSize /\ DOMAIN ret.fs.files[a].algs = {"", "gzip", "br"}
       /\ Len(src.files[b].bytes) = MinSize - 1 /\ DOMAIN ret.fs.files[b].algs = {""}
       /\ ignoreMatches(copts.CompressIgnore, c) /\ Len(src.files[c].bytes) = MinSize
       /\ DOMAIN ret.fs.files[c].algs = {""}

\* C7: after a successful build every file's variant map has the key ""
\* with the bytes read from the source, and every other key k holds
\* compress(those bytes, k), which decodes back to them.
C7_VariantsAreCompressedOriginal ==
  Built =>
    \A name \in DOMAIN ret.fs.files :
      LET f == ret.fs.files[name] IN
      /\ "" \in DOMAIN f.algs
      /\ f.algs[""] = src.files[name].bytes
      /\ \A k \in DOMAIN f.algs \ {""} :
           /\ f.algs[k] = compress(ToLower(k), src.files[name].bytes)
           /\ decompress(ToLower(k), f.algs[k]) = f.algs[""]

\* A build that stored two compressed variants of a file, the second made
\* with the scratch buffer the first had used.
C7_Witness ==
  /\ Built
  /\ \E name \in DOMAIN ret.fs.files : {"gzip", "br"} \subseteq DOMAIN ret.fs.files[name].algs

\* C8: if a step of Cache fails, Cache returns the error together with the
\* provider it was given, MustCache panics, and no cache is installed; with
\* no failure the cache is returned without an error.
C8_FailedBuildInstallsNothing ==
  pc = "done" =>
    /\ ret.err <=> failedAt # ""
    /\ (ret.err /\ ret.api = "Cache") => (ret.kind = "return" /\ ret.fs = src)
    /\ (ret.err /\ ret.api = "MustCache") => (ret.kind = "panic" /\ ret.fs = NoFS)
    /\ ~ret.err => (ret.kind = "return" /\ ret.fs.kind = "cache")

\* Cache returned an error after findDirs had already filled its map and
\* cacheFiles had cached a file.
C8_Witness ==
  /\ pc = "done" /\ ret.api = "Cache" /\ failedAt = "files"
  /\ idx > 1
  /\ ret.fs = src


\* Cache has returned from a call on a cache that an earlier call built.
Recached == pc = "done" /\ src.kind = "cache"

\* The names of a children list, in its order.
ChildNames(children) == [k \in 1..Len(children) |-> children[k].baseName]

\* How many times x occurs in the sequence s.
Occurrences(s, x) == Cardinality({ k \in 1..Len(s) : s[k] = x })

\* C16: Cache on a provider that Cache returned ends without an error and
\* yields the same file paths, the same directory children and a file count
\* n equal to the number of distinct files: nothing is found, counted or
\* listed twice.
C16_RecacheSameIndex ==
  Recached =>
    /\ ret.kind = "return" /\ ~ret.err
    /\ ret.fs.n = Cardinality(DOMAIN src.files)
    /\ DOMAIN ret.fs.files = DOMAIN src.files
    /\ DOMAIN ret.fs.dirs = DOMAIN src.dirs
    /\ \A d \in DOMAIN src.dirs :
         /\ Range(ChildNames(ret.fs.dirs[d].children)) = Range(ChildNames(src.dirs[d].children))
         /\ \A x \in Range(ChildNames(ret.fs.dirs[d].children)) :
              Occurrences(ChildNames(ret.fs.dirs[d].children), x) = 1

\* The walk of Cache from "/" over a cache has ended without an error.
WalkedCache == src.kind = "cache" /\ pc \in {"sort", "dirs", "files", "built"}

\* C17: the walk from "/" ends on a provider whose root lists an entry that
\* resolves back to the root: the entry is skipped, it is not walked into
\* and it adds no path.  Every name found is a file of the provider, a file
\* directly in the root is found once, and the walk fails only when the
\* provider has no root to open.
C17_WalkSkipsSelfEntry ==
  /\ WalkedCache =>
       /\ Slash \in DOMAIN src.dirs
       /\ Range(names) \subseteq DOMAIN src.files
       /\ \A f \in DOMAIN src.files :
            Dir(f) = Slash =>
              Occurrences(names, f) = Occurrences(ChildNames(src.dirs[Slash].children), Last(f))
  /\ (src.kind = "cache" /\ failedAt = "walk") => Slash \notin DOMAIN src.dirs

\* The walk went over a root that lists itself and found the root's file.
C17_Witness ==
  /\ WalkedCache
  /\ pc = "sort"
  /\ "/" \in Range(ChildNames(src.dirs[Slash].children))
  /\ names # <<>>

\* C18: for every path that names a file or a directory of the source tree,
\* Open on the cache succeeds exactly when Open on the source does, both
\* agree on whether it is a directory, a file has the same bytes, base name,
\* mode and modification time, and a directory lists the same child names.
C18_CacheRefinesSource ==
  Built =>
    \A p \in DOMAIN src.files \cup Ancestors(src) :
      LET a == Open(src, p)
          b == Open(ret.fs, p)
      IN /\ a.err = "" <=> b.err = ""
         /\ b.err = "" =>
              /\ a.isDir = b.isDir
              /\ ~a.isDir =>
                   /\ a.bytes = b.bytes
                   /\ a.info.baseName = b.info.baseName
                   /\ a.info.mode = b.info.mode
                   /\ a.info.modTime = b.info.modTime
              /\ a.isDir =>
                   Range(ChildNames(a.children)) = Range(ChildNames(b.children))

\* C19: Open on the cache returns, for a file path, the uncompressed bytes
\* with encoding "" and cached = true, whatever variants the file has; for
\* a directory path it returns the directory entry; a name without its
\* leading slash opens the same entry.  A second Cache over the cache, which
\* reads every file through Open, stores those bytes as the original.
C19_OpenReturnsUncompressed ==
  /\ Built =>
       /\ \A name \in DOMAIN ret.fs.files :
            LET e == cacheOpen(ret.fs, name) IN
            /\ e.err = "" /\ ~e.isDir
            /\ e.bytes = src.files[name].bytes
            /\ GetEncoding(e) = [encoding |-> "", isCached |-> TRUE]
            /\ cacheOpen(ret.fs, Tail(name)) = e
       /\ \A d \in DOMAIN ret.fs.dirs :
            LET e == cacheOpen(ret.fs, d) IN
            /\ e = dirEntry(ret.fs.dirs[d])
            /\ e.isDir
            /\ cacheOpen(ret.fs, Tail(d)) = e
  /\ (Recached /\ ~ret.err) =>
       \A name \in DOMAIN ret.fs.files :
         ret.fs.files[name].algs[""] = src.files[name].algs[""]

\* A second Cache read a file that has a gzip variant through Open and
\* stored its uncompressed bytes.
C19_Witness ==
  /\ Recached /\ ~ret.err
  /\ \E name \in DOMAIN ret.fs.files :
       /\ "gzip" \in DOMAIN src.files[name].algs
       /\ ret.fs.files[name].algs[""] = src.files[name].algs[""]
       /\ src.files[name].algs[""] # src.files[name].algs["gzip"]

(***************************************************************************)
(* Properties of the FileServer handler                                    *)
(***************************************************************************)

\* A request has been handled and its response is in resp.
Handled == pc = "serving" /\ req # NoReq

\* The request path as the handler reads it.
ReqName == prefix(req.path)

\* The index file of the directory the request names, written with or
\* without a trailing slash.
IndexOf(name) == Join(Clean(name), sopts.IndexName)

\* C2: with an index name configured, on a plain or a cached provider, a
\* request for a directory D, with or without a trailing slash, whose file
\* D/<indexName> exists is answered with status 200 and that file's content
\* and metadata, never with a listing, a 404 or a redirect.
C2_DirectoryAnsweredWithIndex ==
  (/\ Handled
   /\ req.fault = ""
   /\ sopts.IndexName # EmptyStr
   /\ sopts.Allow = "nil"
   /\ Clean(ReqName) \notin DOMAIN src.files
   /\ IndexOf(ReqName) \in DOMAIN src.files)
  => /\ resp.status = 200
     /\ resp.body.kind = "bytes"
     /\ resp.served.called
     /\ resp.served.path = IndexOf(ReqName)
     /\ resp.served.name = Last(IndexOf(ReqName))
     /\ resp.served.modTime = src.files[IndexOf(ReqName)].modTime

\* C3: once the cache is in service, no step of handling a request changes
\* anything reachable from the cache index: variant bytes, directory entries
\* and the order of the children lists stay as built.
C3_CacheIndexReadOnly == [][(pc = "serving" /\ fsrv.kind = "cache") => fsrv' = fsrv]_vars

\* What C4 says Ropen returns for the file at name under request r.
RopenAsSpecified(name, r) ==
  LET alg == Negotiate(r.accept, fsrv.algs)
      file == fsrv.files[name]
  IN IF alg # "" /\ alg \in DOMAIN file.algs
     THEN [bytes |-> file.algs[alg], alg |-> alg]
     ELSE [bytes |-> file.algs[""], alg |-> ""]

\* C4: Ropen on the cached provider, for a file path: when negotiation of
\* the request's Accept-Encoding against the cache's encodings gives a
\* non-empty algorithm and the file has a variant for it, the entry carries
\* that variant's bytes and reports that algorithm; otherwise it carries the
\* uncompressed bytes and reports the empty algorithm.  It never fails for a
\* file of the cache.  The entry the handler delivers is that entry.
C4_RopenReturnsNegotiatedVariant ==
  (Handled /\ fsrv.kind = "cache") =>
    /\ \A name \in DOMAIN fsrv.files :
         LET e == cacheRopen(fsrv, name, req) IN
         /\ e.err = ""
         /\ ~e.isDir
         /\ e.bytes = RopenAsSpecified(name, req).bytes
         /\ e.alg = RopenAsSpecified(name, req).alg
    /\ ReqName \in DOMAIN fsrv.files => resp.status # 404
    /\ resp.served.called =>
         /\ resp.served.path \in DOMAIN fsrv.files
         /\ resp.served.alg = RopenAsSpecified(resp.served.path, req).alg
         /\ resp.body.bytes = RopenAsSpecified(resp.served.path, req).bytes

\* A request that accepts gzip for a file the cache holds uncompressed only:
\* the uncompressed bytes were delivered with the empty algorithm.
C4_Witness ==
  /\ Handled /\ fsrv.kind = "cache"
  /\ resp.served.called
  /\ Negotiate(req.accept, fsrv.algs) = "gzip"
  /\ DOMAIN fsrv.files[resp.served.path].algs = {""}
  /\ resp.served.alg = ""
  /\ resp.body.bytes = src.files[resp.served.path].bytes

\* C5: for a response whose content comes from the cache, Content-Encoding
\* names E exactly when the body is the stored variant for E, nothing is
\* compressed on the fly even with Compress enabled, and no Content-Encoding
\* is set when the uncompressed variant is delivered; a client that accepts
\* gzip and deflate, asking for a file stored with a gzip variant only,
\* receives the gzip bytes labelled gzip.
C5_ContentEncodingMatchesBody ==
  (Handled /\ fsrv.kind = "cache" /\ resp.served.called) =>
    LET file == fsrv.files[resp.served.path] IN
    /\ resp.live = ""
    /\ resp.contentEncoding \in DOMAIN file.algs
    /\ \A E \in DOMAIN file.algs :
         resp.contentEncoding = E <=> resp.body.bytes = file.algs[E]
    /\ resp.body.bytes = file.algs[""] <=> resp.contentEncoding = ""
    /\ resp.contentEncoding # "" =>
         decompress(ToLower(resp.contentEncoding), resp.body.bytes) = file.algs[""]
    /\ ({"gzip", "deflate"} \subseteq req.accept /\ DOMAIN file.algs = {"", "gzip"}) =>
         /\ resp.contentEncoding = "gzip"
         /\ resp.body.bytes = file.algs["gzip"]

\* With Compress enabled, a client that accepts gzip and deflate received
\* the stored gzip variant of an index file, labelled gzip.
C5_Witness ==
  /\ Handled /\ fsrv.kind = "cache" /\ resp.served.called
  /\ sopts.Compress
  /\ req.accept = {"gzip", "deflate"}
  /\ DOMAIN fsrv.files[resp.served.path].algs = {"", "gzip"}
  /\ resp.contentEncoding = "gzip"
  /\ resp.body.bytes = compress("gzip", src.files[resp.served.path].bytes)
  /\ resp.live = ""

\* The request path ends with the index suffix and names an existing file
\* that opens.
IndexRequested ==
  /\ Handled
  /\ sopts.IndexName # EmptyStr
  /\ HasSuffix(ReqName, sopts.IndexName)
  /\ ReqName \in DOMAIN src.files
  /\ openAndStat(fsrv, ReqName, req).err = ""

\* C9 as stated: such a request is answered with 301 whose Location is the
\* request path without the index suffix (/app2/ for /app2/index.html), with
\* the raw query appended when there is one, and no content is delivered.
C9_RedirectToAbsolutePath ==
  IndexRequested =>
    /\ resp.status = 301
    /\ resp.location.set
    /\ resp.location.path = Append(Front(ReqName), "")
    /\ resp.location.rawQuery = req.query
    /\ ~resp.served.called
    /\ resp.body.kind = "none"

\* C9, amended: such a request is answered with 301 whose Location is the
\* relative reference "./", with "?" and the raw query appended when the
\* query is non-empty, and no content is delivered.
C9_RedirectToRelativeDot ==
  IndexRequested =>
    /\ resp.status = 301
    /\ resp.location.set
    /\ resp.location.path = <<".", "">>
    /\ resp.location.rawQuery = req.query
    /\ ~resp.served.called
    /\ resp.body.kind = "none"

\* /app2/index.html?x=1 was answered with a redirect that keeps the query.
C9_Witness ==
  /\ IndexRequested
  /\ req.path = <<"", "app2", "index.html">>
  /\ req.query = "x=1"
  /\ resp.status = 301
  /\ resp.location.rawQuery = "x=1"

\* What the request path opens.
Opened == openAndStat(fsrv, ReqName, req)

\* The request is answered from the directory branch with listings enabled:
\* the path opens as a directory and no index file replaces it.
IsListing ==
  /\ Handled
  /\ sopts.ShowList
  /\ Opened.err = ""
  /\ Opened.info.isDir
  /\ ~(sopts.IndexName # EmptyStr
       /\ open(fsrv, Cat(TrimSuffixSlash(ReqName), sopts.IndexName), req).err = "")

\* The condition C10 gives for a 304 on a directory modified at mt.
NotModifiedSince(mt) ==
  /\ req.method \in {"GET", "HEAD"}
  /\ req.ims.text = "date"
  /\ mt # 0
  /\ mt < req.ims.sec * TicksPerSecond + TicksPerSecond

\* The 304 part of C10: 304 exactly under NotModifiedSince, with no body, no
\* Content-Type, no Content-Length and no call of the renderer; a header
\* equal to the modification time gives 304, one second earlier does not.
Only304WhenNotModified(mt) ==
  /\ resp.status = 304 <=> NotModifiedSince(mt)
  /\ resp.status = 304 =>
       /\ resp.body.kind = "none"
       /\ resp.contentType = ""
       /\ ~resp.contentLength
       /\ ~resp.rendered
       /\ resp.lastModified = NoHdr
  /\ (req.method = "GET" /\ mt # 0 /\ req.ims = FormatTime(mt)) => resp.status = 304
  /\ (req.method = "GET" /\ mt >= TicksPerSecond /\ req.ims = FormatTime(mt - TicksPerSecond)) =>
       resp.status # 304

Denies(name) == sopts.Allow # "nil" /\ Len(name) >= 2 /\ name[2] = "app2"

\* C11: when the configured Allow returns false for a request, the handler
\* does nothing further: no Content-Disposition and no Content-Encoding
\* header, no rate limiter and no compressing writer, no push, no content,
\* and no status other than what the validator itself wrote.
C11_RefusedRequestEndsThere ==
  (Handled /\ resp.allowCalled /\ Denies(ReqName)) =>
    /\ resp.contentDisposition = ""
    /\ resp.contentEncoding = ""
    /\ ~resp.limited
    /\ resp.live = ""
    /\ resp.pushes = <<>>
    /\ ~resp.served.called
    /\ resp.body = NoBody
    /\ ~resp.rendered
    /\ resp.location = NoLoc
    /\ resp.status = (IF sopts.Allow = "denyApp2" THEN 403 ELSE 0)

\* A validator that writes nothing refuses /app2/x.js while attachments with
\* a rate limit and compression are on: nothing is written at all.
C11_Witness ==
  /\ Handled /\ resp.allowCalled /\ Denies(ReqName)
  /\ sopts.Allow = "denyApp2Silent"
  /\ sopts.Attachments.Enable /\ sopts.Attachments.Limit > 0
  /\ sopts.Compress /\ req.accept = {"gzip", "deflate"}
  /\ fsrv.kind = "plain"
  /\ ReqName = <<"", "app2", "x.js">>
  /\ resp.status = 0
  /\ resp.contentDisposition = ""

\* Something of the requested resource went out: file content, a directory
\* listing, or the index redirect.
SomethingServed ==
  \/ resp.served.called
  \/ resp.body.kind = "listing"
  \/ resp.rendered
  \/ resp.location # NoLoc

\* C12: with an Allow validator configured, nothing (file content, directory
\* listing or index redirect) is served for a request unless Allow was
\* invoked for it and returned true.
C12_NothingServedUnlessAllowed ==
  (Handled /\ sopts.Allow # "nil" /\ SomethingServed) =>
    (resp.allowCalled /\ ~Denies(ReqName))

\* The targets of the push attempts of a response, in the order made.
Attempted(w) == [k \in 1..Len(w.pushes) |-> w.pushes[k].target]

\* C14: within one request the pushes are attempted in order, the literal
\* targets and then the pattern matches, and after the first push that fails
\* no further push of either kind is attempted: the attempts are the
\* attempts of the same request with no failing push, cut after the one that
\* failed.
C14_NoPushAfterFailure ==
  Handled =>
    /\ \A k \in 1..Len(resp.pushes) : resp.pushes[k].failed => k = Len(resp.pushes)
    /\ LET all == Attempted(handler(fsrv, sopts, [req EXCEPT !.pushFail = 0]))
       IN /\ Len(resp.pushes) <= Len(all)
          /\ Attempted(resp) = SubSeq(all, 1, Len(resp.pushes))

\* The answer to the same request from a handler with no push target
\* configured.
WithoutPushTargets ==
  handler(fsrv, [sopts EXCEPT !.PushTargets = <<>>, !.PushTargetsRegexp = <<>>], req)

\* The handler went through its push phase for the request.
PushPhase ==
  /\ Handled
  /\ (DOMAIN sopts.PushTargets # {} \/ DOMAIN sopts.PushTargetsRegexp # {})
  /\ WithoutPushTargets.served.called

\* C15: whatever happens in the push phase (a push failing, the enumeration
\* of the descendant paths failing), the primary content is delivered once,
\* with the name, the modification time and the content stream it has when
\* no push target is configured; the rest of the response is the same too.
C15_ContentDeliveredDespitePush ==
  PushPhase =>
    /\ resp.served.called
    /\ resp.served.count = 1
    /\ resp.served = WithoutPushTargets.served
    /\ resp.body = WithoutPushTargets.body
    /\ SelectSeq(resp.order, LAMBDA st : st # "push") = WithoutPushTargets.order
    /\ resp = [WithoutPushTargets EXCEPT !.pushes = resp.pushes,
                                          !.order = resp.order, !.fs = NoFS]

\* The first push of a request for /app2 failed, and the index file of /app2
\* was delivered once.
C15_Witness ==
  /\ PushPhase
  /\ req.pushFail = 1
  /\ Len(resp.pushes) >= 1 /\ resp.pushes[1].failed
  /\ resp.served.called /\ resp.served.count = 1
  /\ resp.served.path = <<"", "app2", "index.html">>
  /\ resp.status = 200

\* The provider reports the request path as not existing.
NotFound == open(fsrv, ReqName, req).err = NotExist.err

\* The request path opens as a directory that no index file replaces, while
\* listings are disabled.
BareDirectory ==
  /\ Opened.err = ""
  /\ Opened.info.isDir
  /\ ~sopts.ShowList
  /\ ~(sopts.IndexName # EmptyStr
       /\ open(fsrv, Cat(TrimSuffixSlash(ReqName), sopts.IndexName), req).err = "")

\* C20: the pipeline answers 404 exactly for missing resources: a path the
\* provider reports as not existing, or a directory with no index file while
\* listing is disabled; such a request gets no Allow call, no renderer call,
\* no push and no content; an open or Stat failure that is not a
\* does-not-exist condition is not answered with 404.
C20_NotFoundOnlyForMissing ==
  Handled =>
    /\ (resp.status = 404) <=> (NotFound \/ BareDirectory)
    /\ (NotFound \/ BareDirectory) =>
         /\ ~resp.allowCalled
         /\ ~resp.rendered
         /\ resp.pushes = <<>>
         /\ ~resp.served.called
         /\ resp.body = NoBody
    /\ Opened.err = IOError.err => resp.status # 404

\* C13: with a byte-rate Limit above 0, every read of the rate-limited
\* stream ends in one of two ways only: it returns its bytes without error
\* once the bucket admitted them, or it returns the context's cancellation
\* error because the request was cancelled; so a stream whose request is not
\* cancelled never stops short of the end of the file.
C13_ReadFailsOnlyOnCancel ==
  /\ rs.state = "failed" => (rs.err = "canceled" /\ rs.cancelled)
  /\ (rs.state = "done" /\ ~rs.cancelled) => rs.delivered = rs.size

\* Cache has sorted its names: the directory builder or a later phase runs.
Sorted == pc \in {"dirs", "files", "built"}

\* C22 as stated: Cache orders the discovered paths by descending slash
\* count, so the directory builder never processes a path before another
\* path that has strictly more slashes.
C22_NamesDeepestFirst ==
  Sorted => \A i, j \in 1..Len(names) :
              i < j => CountSlashes(names[i]) >= CountSlashes(names[j])

\* C22, amended: Cache orders the discovered paths by ascending slash count,
\* so the directory builder never processes a path before another path that
\* has strictly fewer slashes.
C22_NamesShallowestFirst ==
  Sorted => \A i, j \in 1..Len(names) :
              i < j => CountSlashes(names[i]) <= CountSlashes(names[j])

\* The directory builder has processed a path of the root and goes on to a
\* deeper one.
C22_Witness ==
  /\ pc = "dirs"
  /\ src.kind = "plain"
  /\ idx = 2
  /\ Len(names) >= 2
  /\ CountSlashes(names[1]) = 1
  /\ CountSlashes(names[2]) > 1

\* C23: for every file that was compressed during the build, the non-empty
\* keys of its variant map are the configured encodings as the cache keeps
\* them (the list negotiation offers from), so a variant is stored under the
\* name of whichever encoding negotiation selects.
C23_VariantKeysAreOfferedEncodings ==
  Built =>
    \A p \in DOMAIN ret.fs.files :
      DOMAIN ret.fs.files[p].algs # {""} =>
        DOMAIN ret.fs.files[p].algs \ {""} = Range(ret.fs.algs)

\* C24: in every directory entry of the cache the children list holds
\* nothing but immediate children, each exactly once: a subdirectory is
\* listed once in its parent however many files it holds, and no directory,
\* the root included, is listed as a child of itself.
C24_ChildrenImmediateOnce ==
  Built =>
    \A d \in DOMAIN ret.fs.dirs :
      LET ch == ret.fs.dirs[d].children IN
      \A k \in 1..Len(ch) :
        /\ ch[k].isDir => (ch[k].ref # d /\ Dir(ch[k].ref) = d)
        /\ Occurrences(ChildNames(ch), ch[k].baseName) = 1

\* C28: when Cache returns, with or without an error, every handle it opened
\* on the provider during the walk, the directory construction and the file
\* caching has been closed.
C28_NoHandleLeftOpen == pc = "done" => nOpen = 0

\* The content delivered is an index file in place of the directory the
\* request names.
IndexSubstitution ==
  /\ Handled
  /\ resp.served.called
  /\ Opened.err = ""
  /\ Opened.info.isDir

\* C25: a response that delivers a file carries the download-forcing
\* Content-Disposition header (the file's base name, passed through NameFunc
\* when set) if and only if attachment mode is enabled and the file is not an
\* index substitution, and it is rate limited if and only if, in addition,
\* Limit is above 0; an index file served in place of its directory is never
\* an attachment and never rate limited, and a response that delivers no
\* file carries neither.
C25_AttachmentIffEnabledAndNotIndex ==
  Handled =>
    /\ (resp.contentDisposition # "") <=>
         (resp.served.called /\ sopts.Attachments.Enable /\ ~IndexSubstitution)
    /\ resp.contentDisposition # "" =>
         resp.contentDisposition =
           (IF sopts.Attachments.NameFunc = "nil" THEN Last(resp.served.path) ELSE "renamed")
    /\ resp.limited <=>
         (resp.served.called /\ sopts.Attachments.Enable /\ ~IndexSubstitution
          /\ sopts.Attachments.Limit > 0)

\* With attachments and a rate limit on, /app2 was answered with its index
\* file, which went out with no Content-Disposition and no limiter.
C25_Witness ==
  /\ IndexSubstitution
  /\ sopts.Attachments.Enable /\ sopts.Attachments.Limit > 0
  /\ ReqName = <<"", "app2">>
  /\ resp.status = 200
  /\ resp.served.path = <<"", "app2", "index.html">>
  /\ resp.contentDisposition = ""
  /\ ~resp.limited

\* The request path is a key of the literal or of the pattern push targets.
PushKey == ReqName \in DOMAIN sopts.PushTargets \cup DOMAIN sopts.PushTargetsRegexp

\* C26: a push is attempted for a request only if the transport supports
\* push, the response is an index substitution, attachment mode is off and
\* the request path is a key of the literal or pattern push targets; a
\* request answered with a directly requested file, a listing, a redirect,
\* a 304, a 404 or an Allow denial triggers no push.
C26_PushOnlyForIndexOverPusher ==
  Handled =>
    /\ resp.pushes # <<>> =>
         /\ req.h2
         /\ IndexSubstitution
         /\ ~sopts.Attachments.Enable
         /\ PushKey
    /\ (\/ ~resp.served.called
        \/ resp.status # 200
        \/ resp.body.kind = "listing"
        \/ resp.served.path = Clean(ReqName)) => resp.pushes = <<>>

\* Over HTTP/2, with attachments off, the index file of /app2 went out with
\* the pushes of its literal and pattern targets.
C26_Witness ==
  /\ IndexSubstitution
  /\ req.h2 /\ req.pushFail = 0
  /\ ReqName = <<"", "app2">>
  /\ PushKey
  /\ ~sopts.Attachments.Enable
  /\ Len(resp.pushes) = 3
  /\ resp.status = 200

\* C27: when the listing renderer returns an error, before or after it has
\* written part of the body, the status of the response is 500; when it
\* returns no error the response is the 200 listing.
C27_RendererErrorGives500 ==
  (IsListing /\ resp.status # 304) =>
    IF sopts.DirList \in {"errEarly", "errLate"}
    THEN resp.status = 500
    ELSE resp.status = 200 /\ resp.body.kind = "listing"

\* The steps of the response that come after its Allow check.
LaterSteps == {"disposition", "limiter", "encoding", "push", "content"}

\* C29: within one request the steps come in a fixed order: Allow, when
\* configured, is consulted before any Content-Disposition or
\* Content-Encoding header is set and before any push; every push is
\* attempted before the first byte of content goes out; content delivery is
\* the last step and happens at most once.
C29_StepsInOrder ==
  Handled =>
    LET o == resp.order IN
    /\ (sopts.Allow # "nil" /\ o # <<>>) => o[1] = "allow"
    /\ \A i, j \in 1..Len(o) :
         /\ (o[i] \in LaterSteps /\ o[j] = "allow") => j < i
         /\ (o[i] = "push" /\ o[j] = "content") => i < j
         /\ o[i] = "content" => i = Len(o)
    /\ Cardinality({ i \in 1..Len(o) : o[i] = "content" }) <= 1
    /\ Cardinality({ i \in 1..Len(o) : o[i] = "content" }) = resp.served.count
    /\ Cardinality({ i \in 1..Len(o) : o[i] = "push" }) = Len(resp.pushes)
    /\ ("allow" \in Range(o)) <=> resp.allowCalled
    /\ ("disposition" \in Range(o)) <=> (resp.contentDisposition # "")
    /\ ("encoding" \in Range(o)) <=> (resp.contentEncoding # "")

\* A validator let the request for / over HTTP/2 pass; the encoding of the
\* cached index file was set, its push was attempted, and then the content
\* went out.
C29_Witness ==
  /\ Handled
  /\ fsrv.kind = "cache"
  /\ ReqName = Slash
  /\ resp.order = <<"allow", "encoding", "push", "content">>
  /\ resp.served.count = 1

\* C21: PrefixDir(p, fs) opens path.Join(p, n) on fs through every way of
\* opening it offers, plain Open always and negotiated Ropen when fs has it,
\* so Open and Ropen of the returned file system resolve the same path.
C21_PrefixAppliedToEveryOpen ==
  px # NoPx =>
    /\ px.way = "Open" => px.got = Open(fsrv.fs, Join(fsrv.prefix, px.name))
    /\ px.way = "Ropen" => px.got = cacheRopen(fsrv.fs, Join(fsrv.prefix, px.name), px.r)

\* C30: every Open or Ropen of a cached file yields an entry with a read
\* cursor of its own, starting at 0, over the immutable variant bytes: under
\* any interleaving of reads, seeks and closes by concurrent requests, what
\* an entry has read since its last seek (or since it was opened) is the
\* stored variant from that offset up to its cursor, so a request that reads
\* to the end has the complete, unaltered variant; the close of one entry
\* leaves the others as they are.
C30_EntriesReadIndependently ==
  pc = "readers" =>
    \A k \in 1..Len(ents) :
      LET stored == fsrv.files[ents[k].path].algs[ents[k].alg] IN
      /\ ents[k].i \in 0..Len(stored)
      /\ ents[k].from <= ents[k].i
      /\ ents[k].out = SubSeq(stored, ents[k].from + 1, ents[k].i)
      /\ stored = (IF ents[k].alg = "" THEN src.files[ents[k].path].bytes
                   ELSE compress(ents[k].alg, src.files[ents[k].path].bytes))

\* Two requests hold the gzip variant of the same file; the first read part
\* of it and closed, and the second has read all of it from offset 0.
C30_Witness ==
  /\ pc = "readers"
  /\ Len(ents) = 2
  /\ ents[1].path = ents[2].path
  /\ ents[1].alg = "gzip" /\ ents[2].alg = "gzip"
  /\ ents[1].closed /\ ents[1].i = 1
  /\ ~ents[2].closed
  /\ ents[2].from = 0
  /\ ents[2].i = Len(ents[2].s)
  /\ ents[2].out = compress("gzip", src.files[ents[2].path].bytes)

====
